---- MODULE Spec2Model ----
(***************************************************************************)
(* The risk assessment form controller of src/pages/Index.tsx: the eight   *)
(* text fields of formData, the text and slider edit handlers,             *)
(* validateForm, handlePredict behind its disabled={isSubmitting} button,  *)
(* and the callback handlePredict defers with setTimeout.                  *)
(*                                                                         *)
(* A string is a sequence of one-character strings, so that Number() and   *)
(* Number.prototype.toString() are computed character by character.        *)
(***************************************************************************)
EXTENDS Integers, Sequences, FiniteSets, TLC

VARIABLES formData, result, isSubmitting, timers, toasts, lastEvent, completed

vars == <<formData, result, isSubmitting, timers, toasts, lastEvent, completed>>

(***************************************************************************)
(* The field keys, in the order of validateForm's requiredFields.          *)
(***************************************************************************)
requiredFields ==
    << "pregnancies", "glucose", "bloodPressure", "skinThickness",
       "insulin", "bmi", "diabetesPedigree", "age" >>

FormDataKeys == { requiredFields[i] : i \in 1..Len(requiredFields) }

(***************************************************************************)
(* Numbers.  A JavaScript number is NaN, an infinity, or a finite decimal  *)
(* (-1)^neg * mant * 10^-scale.                                            *)
(***************************************************************************)
NaN == [kind |-> "NaN", neg |-> FALSE, mant |-> 0, scale |-> 0]

Infinite(neg) == [kind |-> "Infinity", neg |-> neg, mant |-> 0, scale |-> 0]

Finite(neg, mant, scale) ==
    [kind |-> "Finite", neg |-> neg, mant |-> mant, scale |-> scale]

RECURSIVE Pow10(_)
Pow10(k) == IF k = 0 THEN 1 ELSE 10 * Pow10(k - 1)

DigitChars == << "0", "1", "2", "3", "4", "5", "6", "7", "8", "9" >>

Digits == { DigitChars[i] : i \in 1..10 }

DigitValue(c) == (CHOOSE i \in 1..10 : DigitChars[i] = c) - 1

WhiteSpace == { " " }

InfinityChars == << "I", "n", "f", "i", "n", "i", "t", "y" >>

RECURSIVE TrimStart(_)
TrimStart(s) ==
    IF s # << >> /\ Head(s) \in WhiteSpace THEN TrimStart(Tail(s)) ELSE s

RECURSIVE TrimEnd(_)
TrimEnd(s) ==
    IF s # << >> /\ s[Len(s)] \in WhiteSpace
    THEN TrimEnd(SubSeq(s, 1, Len(s) - 1))
    ELSE s

AllDigits(s) == \A i \in 1..Len(s) : s[i] \in Digits

RECURSIVE DigitsValue(_)
DigitsValue(s) ==
    IF s = << >> THEN 0
    ELSE 10 * DigitsValue(SubSeq(s, 1, Len(s) - 1)) + DigitValue(s[Len(s)])

(* StrUnsignedDecimalLiteral: Infinity, digits, digits.digits, digits. or  *)
(* .digits; anything else is not a numeric literal.                        *)
UnsignedLiteral(u) ==
    LET dots == { i \in 1..Len(u) : u[i] = "." } IN
    IF u = InfinityChars THEN Infinite(FALSE)
    ELSE IF dots = {} THEN
        IF u # << >> /\ AllDigits(u) THEN Finite(FALSE, DigitsValue(u), 0)
        ELSE NaN
    ELSE IF Cardinality(dots) = 1 THEN
        LET d  == CHOOSE i \in dots : TRUE
            ip == SubSeq(u, 1, d - 1)
            fp == SubSeq(u, d + 1, Len(u))
        IN  IF AllDigits(ip) /\ AllDigits(fp) /\ (ip # << >> \/ fp # << >>)
            THEN Finite(FALSE, DigitsValue(ip \o fp), Len(fp))
            ELSE NaN
    ELSE NaN

(* Number(string): StringToNumber over the characters of the model's       *)
(* strings (digits, ".", "+", "-", the space and letters; no exponent and  *)
(* no radix prefix occurs in them).  White space is trimmed and the empty  *)
(* remainder is +0.                                                        *)
Number(s) ==
    LET t == TrimEnd(TrimStart(s)) IN
    IF t = << >> THEN Finite(FALSE, 0, 0)
    ELSE IF Head(t) \in { "+", "-" } THEN
        LET u == UnsignedLiteral(Tail(t)) IN
        IF u.kind = "NaN" THEN NaN ELSE [u EXCEPT !.neg = (Head(t) = "-")]
    ELSE UnsignedLiteral(t)

isNaN(v) == v.kind = "NaN"

(* v > n for a natural number n; false when v is NaN. *)
GreaterThan(v, n) ==
    \/ v.kind = "Infinity" /\ ~v.neg
    \/ v.kind = "Finite" /\ ~v.neg /\ v.mant > n * Pow10(v.scale)

(* Number.prototype.toString() of a finite non-negative decimal: no        *)
(* trailing fractional zeros, no "." for an integer.                       *)
RECURSIVE NatToString(_)
NatToString(n) ==
    IF n < 10 THEN << DigitChars[n + 1] >>
    ELSE NatToString(n \div 10) \o << DigitChars[(n % 10) + 1] >>

RECURSIVE FractionToString(_, _)
FractionToString(n, width) ==
    IF width = 0 THEN << >>
    ELSE FractionToString(n \div 10, width - 1) \o << DigitChars[(n % 10) + 1] >>

RECURSIVE NumberToString(_, _)
NumberToString(mant, scale) ==
    IF scale > 0 /\ mant % 10 = 0 THEN NumberToString(mant \div 10, scale - 1)
    ELSE IF scale = 0 THEN NatToString(mant)
    ELSE NatToString(mant \div Pow10(scale)) \o << "." >>
            \o FractionToString(mant % Pow10(scale), scale)

(***************************************************************************)
(* fieldRanges: min and max counted in steps, the step being 10^-scale.    *)
(* Only the sliders read it.                                               *)
(***************************************************************************)
fieldRanges ==
    [ pregnancies      |-> [min |-> 0,   max |-> 20,   scale |-> 0],
      glucose          |-> [min |-> 0,   max |-> 300,  scale |-> 0],
      bloodPressure    |-> [min |-> 0,   max |-> 200,  scale |-> 0],
      skinThickness    |-> [min |-> 0,   max |-> 100,  scale |-> 0],
      insulin          |-> [min |-> 0,   max |-> 500,  scale |-> 0],
      bmi              |-> [min |-> 100, max |-> 600,  scale |-> 1],
      diabetesPedigree |-> [min |-> 0,   max |-> 2500, scale |-> 3],
      age              |-> [min |-> 1,   max |-> 120,  scale |-> 0] ]

(***************************************************************************)
(* The inputs of the model.  TextValues(f) are the strings a text edit of  *)
(* field f may carry, SliderSteps(f) the slider positions (in steps) a     *)
(* drag may report; a slider reports only positions inside its range.      *)
(***************************************************************************)
Empty == << >>

TextValues(f) ==
    CASE f = "pregnancies"      -> { Empty, << "x" >>, << "2" >> }
      [] f = "glucose"          -> { Empty, << "x" >>, << "1", "4", "0" >>,
                                     << "1", "4", "1" >> }
      [] f = "bloodPressure"    -> { Empty, << "7", "0" >> }
      [] f = "skinThickness"    -> { Empty, << " " >>, InfinityChars,
                                     << "2", "0" >> }
      [] f = "insulin"          -> { Empty, << "8", "0" >> }
      [] f = "bmi"              -> { Empty, << "3", "0" >>,
                                     << "3", "0", ".", "1" >> }
      [] f = "diabetesPedigree" -> { Empty, << "0", ".", "5" >> }
      [] f = "age"              -> { Empty, << "x" >>, << "3", "3" >> }

SliderSteps(f) ==
    LET tried == CASE f = "pregnancies"      -> { 2 }
                   [] f = "glucose"          -> { 140, 141 }
                   [] f = "bloodPressure"    -> { 70 }
                   [] f = "skinThickness"    -> { 20 }
                   [] f = "insulin"          -> { 80 }
                   [] f = "bmi"              -> { 300, 301 }
                   [] f = "diabetesPedigree" -> { 500 }
                   [] f = "age"              -> { 33 }
    IN  { n \in tried : fieldRanges[f].min <= n /\ n <= fieldRanges[f].max }

(***************************************************************************)
(* State.                                                                  *)
(*   formData, result, isSubmitting  the three useState cells;             *)
(*   timers      the callbacks waiting in setTimeout, oldest first; each   *)
(*               is the formData its closure captured;                     *)
(*   toasts      the toast() calls of the latest event;                    *)
(*   lastEvent   the kind of the latest event;                             *)
(*   completed   a record of the submissions whose callback has run, in    *)
(*               order: what each callback read and what it set.  Only     *)
(*               LoggedTimeout writes it.                                  *)
(***************************************************************************)
NoResult == [prediction |-> "null", message |-> ""]

PositiveResult ==
    [prediction |-> "positive",
     message |-> "Based on your inputs, there may be an increased risk. Please consult a healthcare professional."]

NegativeResult ==
    [prediction |-> "negative",
     message |-> "Based on your inputs, your risk appears to be lower. Continue maintaining a healthy lifestyle!"]

Toast(field) ==
    [title |-> "Validation Error", field |-> field, variant |-> "destructive"]

GlucoseThreshold == 140

BmiThreshold == 30

MaxTimers == 2

MaxLog == 2

Init ==
    /\ formData = [f \in FormDataKeys |-> Empty]
    /\ result = NoResult
    /\ isSubmitting = FALSE
    /\ timers = << >>
    /\ toasts = << >>
    /\ lastEvent = "none"
    /\ completed = << >>

(* handleInputChange with a fault: an edit cancels the pending callback. *)
handleInputChangeCancels(field, value) ==
    /\ formData' = [formData EXCEPT ![field] = value]
    /\ lastEvent' = "input"
    /\ toasts' = << >>
    /\ timers' = << >>
    /\ UNCHANGED <<result, isSubmitting, completed>>

(* handleInputChange with a fault: an edit clears the shown result. *)
handleInputChangeClearsResult(field, value) ==
    /\ formData' = [formData EXCEPT ![field] = value]
    /\ result' = NoResult
    /\ lastEvent' = "input"
    /\ toasts' = << >>
    /\ UNCHANGED <<isSubmitting, timers, completed>>

(* handleInputChange(field, value): the string is stored as it is. *)
handleInputChange(field, value) ==
    /\ formData' = [formData EXCEPT ![field] = value]
    /\ lastEvent' = "input"
    /\ toasts' = << >>
    /\ UNCHANGED <<result, isSubmitting, timers, completed>>

(* handleSliderChange(field, [v]): v.toString() is stored. *)
handleSliderChange(field, steps) ==
    /\ formData' = [formData EXCEPT
                      ![field] = NumberToString(steps, fieldRanges[field].scale)]
    /\ lastEvent' = "slider"
    /\ toasts' = << >>
    /\ UNCHANGED <<result, isSubmitting, timers, completed>>

(* FieldFails with a fault: the emptiness test forgotten. *)
FieldFailsNoEmptyTest(value) == isNaN(Number(value))

(* The test of validateForm's loop body on one field. *)
FieldFails(value) == value = Empty \/ isNaN(Number(value))

(* validateFrom with a fault: no return at the first failing field. *)
RECURSIVE validateAllFrom(_, _)
validateAllFrom(data, i) ==
    IF i > Len(requiredFields) THEN [ok |-> TRUE, toasts |-> << >>]
    ELSE LET rest == validateAllFrom(data, i + 1) IN
         IF isNaN(Number(data[requiredFields[i]])) \/ data[requiredFields[i]] = Empty
         THEN [ok |-> FALSE, toasts |-> << Toast(requiredFields[i]) >> \o rest.toasts]
         ELSE rest

(* validateFrom with a fault: a value outside the field's slider range is  *)
(* rejected too.                                                           *)
RECURSIVE validateWithinRangeFrom(_, _)
validateWithinRangeFrom(data, i) ==
    IF i > Len(requiredFields) THEN [ok |-> TRUE, toasts |-> << >>]
    ELSE LET field == requiredFields[i]
             v     == Number(data[field])
             range == fieldRanges[field]
             inside ==
                 /\ v.kind = "Finite"
                 /\ ~v.neg \/ v.mant = 0
                 /\ range.min * Pow10(v.scale) <= v.mant * Pow10(range.scale)
                 /\ v.mant * Pow10(range.scale) <= range.max * Pow10(v.scale)
         IN  IF data[field] = Empty \/ isNaN(v) \/ ~inside
             THEN [ok |-> FALSE, toasts |-> << Toast(field) >>]
             ELSE validateWithinRangeFrom(data, i + 1)

(* validateForm's loop from requiredFields[i] on: the toasts it raises and *)
(* the value it returns.                                                   *)
RECURSIVE validateFrom(_, _)
validateFrom(data, i) ==
    IF i > Len(requiredFields) THEN [ok |-> TRUE, toasts |-> << >>]
    ELSE IF FieldFails(data[requiredFields[i]])
         THEN [ok |-> FALSE, toasts |-> << Toast(requiredFields[i]) >>]
         ELSE validateFrom(data, i + 1)

validateForm(data) == validateFrom(data, 1)

(* ButtonDisabled with a fault: the button is never disabled. *)
ButtonNeverDisabled == FALSE

(* The submit button's disabled attribute. *)
ButtonDisabled == isSubmitting

(* handlePredict with a fault: the earlier result is not cleared. *)
handlePredictKeepsResult ==
    /\ ~isSubmitting
    /\ Len(timers) < MaxTimers
    /\ lastEvent' = "predict"
    /\ UNCHANGED completed
    /\ LET v == validateFrom(formData, 1) IN
        /\ toasts' = v.toasts
        /\ IF ~v.ok
           THEN UNCHANGED <<formData, result, isSubmitting, timers>>
           ELSE /\ isSubmitting' = TRUE
                /\ timers' = Append(timers, formData)
                /\ UNCHANGED <<formData, result>>

(* handlePredict with a fault: result is cleared before validation. *)
handlePredictClearsFirst ==
    /\ ~isSubmitting
    /\ Len(timers) < MaxTimers
    /\ lastEvent' = "predict"
    /\ UNCHANGED completed
    /\ result' = NoResult
    /\ LET v == validateFrom(formData, 1) IN
        /\ toasts' = v.toasts
        /\ IF ~v.ok
           THEN UNCHANGED <<formData, isSubmitting, timers>>
           ELSE /\ isSubmitting' = TRUE
                /\ timers' = Append(timers, formData)
                /\ UNCHANGED formData

(* A click on the enabled button runs handlePredict. *)
handlePredict ==
    /\ ~ButtonDisabled
    /\ Len(timers) < MaxTimers
    /\ lastEvent' = "predict"
    /\ UNCHANGED completed
    /\ LET v == validateForm(formData) IN
        /\ toasts' = v.toasts
        /\ IF ~v.ok
           THEN UNCHANGED <<formData, result, isSubmitting, timers>>
           ELSE /\ isSubmitting' = TRUE
                /\ result' = NoResult
                /\ timers' = Append(timers, formData)
                /\ UNCHANGED formData

(* A click on the disabled button reaches no handler. *)
PredictDisabled ==
    /\ ButtonDisabled
    /\ lastEvent' = "predict"
    /\ toasts' = << >>
    /\ UNCHANGED <<formData, result, isSubmitting, timers, completed>>

(* CallbackFormData with a fault: the callback reads the current formData. *)
CurrentFormData == formData

(* The formData the deferred callback reads: the one of its closure. *)
CallbackFormData == Head(timers)

(* Predict with a fault: the thresholds are inclusive. *)
PredictInclusive(glucose, bmi) ==
    IF \/ GreaterThan(glucose, GlucoseThreshold)
       \/ glucose = Finite(FALSE, GlucoseThreshold, 0)
       \/ GreaterThan(bmi, BmiThreshold)
       \/ bmi = Finite(FALSE, BmiThreshold, 0)
    THEN PositiveResult
    ELSE NegativeResult

(* The decision of the deferred callback. *)
Predict(glucose, bmi) ==
    IF GreaterThan(glucose, GlucoseThreshold) \/ GreaterThan(bmi, BmiThreshold)
    THEN PositiveResult
    ELSE NegativeResult

(* CallbackResult with a fault: age takes part in the decision. *)
CallbackResultWithAge(data) ==
    IF GreaterThan(Number(data.age), 45) THEN PositiveResult
    ELSE IF \/ GreaterThan(Number(data.glucose), GlucoseThreshold)
            \/ GreaterThan(Number(data.bmi), BmiThreshold)
         THEN PositiveResult
         ELSE NegativeResult

(* What the callback computes from the formData it reads. *)
CallbackResult(data) == Predict(Number(data.glucose), Number(data.bmi))

(* The callback of setTimeout(..., 1500) runs. *)
TimeoutBody ==
    /\ timers # << >>
    /\ result' = CallbackResult(CallbackFormData)
    /\ isSubmitting' = FALSE
    /\ timers' = Tail(timers)
    /\ lastEvent' = "timeout"
    /\ toasts' = << >>
    /\ UNCHANGED formData

Timeout == TimeoutBody /\ UNCHANGED completed

(* The same callback, its run recorded in completed while there is room. *)
LoggedTimeout ==
    /\ TimeoutBody
    /\ completed' =
         IF Len(completed) < MaxLog
         THEN Append(completed, [form |-> Head(timers), prediction |-> result'.prediction])
         ELSE completed

InputChange == \E f \in FormDataKeys : \E v \in TextValues(f) : handleInputChange(f, v)

SliderChange == \E f \in FormDataKeys : \E n \in SliderSteps(f) : handleSliderChange(f, n)

Next ==
    \/ InputChange
    \/ SliderChange
    \/ handlePredict
    \/ PredictDisabled
    \/ Timeout

Spec == Init /\ [][Next]_vars

(***************************************************************************)
(* Repeated submissions of filled forms, with the record of completed      *)
(* submissions kept.  The form starts filled (eight text edits from Init)  *)
(* and is edited among numeric strings.                                    *)
(***************************************************************************)
FilledValues(f) ==
    CASE f = "pregnancies"      -> { << "2" >> }
      [] f = "glucose"          -> { << "1", "4", "0" >>, << "1", "4", "1" >> }
      [] f = "bloodPressure"    -> { << "7", "0" >> }
      [] f = "skinThickness"    -> { << "2", "0" >> }
      [] f = "insulin"          -> { << "8", "0" >> }
      [] f = "bmi"              -> { << "3", "0" >>, << "3", "0", ".", "1" >> }
      [] f = "diabetesPedigree" -> { << "0", ".", "5" >> }
      [] f = "age"              -> { << "3", "3" >>, << "5", "0" >> }

FilledInit ==
    /\ \E glucose \in FilledValues("glucose") :
       \E bmi \in FilledValues("bmi") :
       \E age \in FilledValues("age") :
          formData = [f \in FormDataKeys |->
                        CASE f = "glucose" -> glucose
                          [] f = "bmi"     -> bmi
                          [] f = "age"     -> age
                          [] OTHER         -> CHOOSE v \in FilledValues(f) : TRUE]
    /\ result = NoResult
    /\ isSubmitting = FALSE
    /\ timers = << >>
    /\ toasts = << >>
    /\ lastEvent = "input"
    /\ completed = << >>

FilledInputChange ==
    \E f \in FormDataKeys : \E v \in FilledValues(f) : handleInputChange(f, v)

HistoryNext ==
    \/ FilledInputChange
    \/ SliderChange
    \/ handlePredict
    \/ PredictDisabled
    \/ LoggedTimeout

HistorySpec == FilledInit /\ [][HistoryNext]_vars

(***************************************************************************)
(* The specification with the scheduling of the timer: the event loop runs *)
(* a setTimeout callback once its delay has passed, whatever other events  *)
(* arrive (weak fairness of Timeout).  The form starts filled; glucose and *)
(* age are edited among all their text values, the other fields among      *)
(* their numeric ones.                                                     *)
(***************************************************************************)
LiveValues(f) ==
    IF f \in { "glucose", "age" }
    THEN TextValues(f) \cup FilledValues(f)
    ELSE FilledValues(f)

LiveInputChange ==
    \E f \in FormDataKeys : \E v \in LiveValues(f) : handleInputChange(f, v)

LiveNext ==
    \/ LiveInputChange
    \/ SliderChange
    \/ handlePredict
    \/ PredictDisabled
    \/ Timeout

LiveSpec == FilledInit /\ [][LiveNext]_vars /\ WF_vars(Timeout)

(***************************************************************************)
(* Filled forms whose glucose and bmi are also edited to numeric strings   *)
(* outside the ranges of their sliders: above the maximum, below the       *)
(* minimum, and negative.                                                  *)
(***************************************************************************)
RangeValues(f) ==
    CASE f = "glucose" -> FilledValues(f) \cup { << "3", "0", "1" >>, << "-", "5" >> }
      [] f = "bmi"     -> FilledValues(f) \cup { << "9" >> }
      [] OTHER         -> FilledValues(f)

RangeInputChange ==
    \E f \in FormDataKeys : \E v \in RangeValues(f) : handleInputChange(f, v)

RangeNext ==
    \/ RangeInputChange
    \/ SliderChange
    \/ handlePredict
    \/ PredictDisabled
    \/ Timeout

RangeSpec == FilledInit /\ [][RangeNext]_vars

(***************************************************************************)
(* Properties.                                                             *)
(***************************************************************************)
Predictions == { "positive", "negative" }

(* A string that is not empty and that Number() takes to a number. *)
NumericString(value) == value # Empty /\ ~isNaN(Number(value))

(* A non-empty string that is no number: Number() finds no number in it,   *)
(* or it is made of white space only.                                      *)
NonNumericString(value) ==
    /\ value # Empty
    /\ \/ isNaN(Number(value))
       \/ \A i \in 1..Len(value) : value[i] \in WhiteSpace

OthersNumeric(data, field) ==
    \A g \in FormDataKeys \ { field } : NumericString(data[g])

(* The step is a click on the submit button while it is enabled. *)
SubmitStep == ~isSubmitting /\ lastEvent' = "predict"

(* The step is a run of the deferred callback. *)
CallbackStep == timers # << >> /\ lastEvent' = "timeout"

(* C1: when the deferred callback of a submission runs, the prediction is  *)
(* "positive" if and only if the glucose of the submitted form parses to a *)
(* number strictly greater than 140 or its bmi to one strictly greater     *)
(* than 30, and "negative" otherwise.                                      *)
C1_PredictionRule ==
    [][ CallbackStep =>
          LET glucose == Number(Head(timers).glucose)
              bmi     == Number(Head(timers).bmi)
              high    == GreaterThan(glucose, 140) \/ GreaterThan(bmi, 30)
          IN  /\ (result'.prediction = "positive") <=> high
              /\ (result'.prediction = "negative") <=> ~high ]_vars

(* C1 witness: the boundary form glucose = 140, bmi = 30 was submitted     *)
(* unedited and its callback answered "negative".                          *)
C1_Witness ==
    /\ lastEvent = "timeout"
    /\ formData.glucose = << "1", "4", "0" >>
    /\ formData.bmi = << "3", "0" >>
    /\ result = NegativeResult

(* C2: a click on the enabled button with exactly one field empty and the  *)
(* other seven numeric raises one notification, for that field, schedules  *)
(* no callback, and leaves isSubmitting false and result as it was.        *)
C2_EmptyFieldRejected ==
    [][ \A f \in FormDataKeys :
          (SubmitStep /\ formData[f] = Empty /\ OthersNumeric(formData, f)) =>
             /\ toasts' = << Toast(f) >>
             /\ timers' = timers
             /\ isSubmitting' = FALSE
             /\ result' = result ]_vars

(* C2 witness: from the initial result, a submission with only age empty   *)
(* was rejected with the notification for age.                             *)
C2_Witness ==
    /\ lastEvent = "predict"
    /\ formData.age = Empty
    /\ OthersNumeric(formData, "age")
    /\ toasts = << Toast("age") >>
    /\ ~isSubmitting
    /\ timers = << >>
    /\ result = NoResult

(* C3: a click on the enabled button with one field holding a non-empty    *)
(* string that is no number (white space only included) and the other      *)
(* seven numeric raises a notification and does not start a submission.    *)
C3_NonNumericRejected ==
    [][ \A f \in FormDataKeys :
          (SubmitStep /\ NonNumericString(formData[f]) /\ OthersNumeric(formData, f)) =>
             /\ toasts' # << >>
             /\ isSubmitting' = FALSE
             /\ timers' = timers ]_vars

(* C4: a click on the submit button while isSubmitting is true schedules   *)
(* no callback, changes neither result nor formData and raises no          *)
(* notification.                                                           *)
C4_SubmitWhileSubmittingIsNoOp ==
    [][ (isSubmitting /\ lastEvent' = "predict") =>
           /\ timers' = timers
           /\ result' = result
           /\ formData' = formData
           /\ isSubmitting' = isSubmitting
           /\ toasts' = << >> ]_vars

(* C4 witness: the button was clicked during a pending submission, after   *)
(* an edit of the submitted form.                                          *)
C4_Witness ==
    /\ isSubmitting
    /\ lastEvent = "predict"
    /\ Len(timers) = 1
    /\ formData # Head(timers)
    /\ toasts = << >>

(* C5: under LiveSpec, every pending submission is eventually followed by  *)
(* a state with a positive or negative prediction and isSubmitting false.  *)
C5_SubmissionCompletes ==
    isSubmitting ~> (~isSubmitting /\ result.prediction \in Predictions)

(* C5 witness: a submission has completed although glucose was made        *)
(* non-numeric while it was pending.                                       *)
C5_Witness ==
    /\ lastEvent = "timeout"
    /\ ~isSubmitting
    /\ result.prediction \in Predictions
    /\ formData.glucose = << "x" >>

(* C6: the callback of a submission is bound to the formData of the click  *)
(* that started it, stays bound to it whatever is edited meanwhile, and    *)
(* the prediction it sets is the decision on that formData's glucose and   *)
(* bmi.                                                                    *)
C6_PredictionFromSubmittedValues ==
    [][ /\ (timers = << >> /\ timers' # << >>) => Head(timers') = formData
        /\ (timers # << >> /\ timers' # << >>) => Head(timers') = Head(timers)
        /\ CallbackStep =>
             result' = Predict(Number(Head(timers).glucose), Number(Head(timers).bmi)) ]_vars

(* C6 witness: a callback has just set "positive" while the form, edited   *)
(* after the click, is numeric and would itself be decided "negative".     *)
C6_Witness ==
    /\ lastEvent = "timeout"
    /\ result = PositiveResult
    /\ \A f \in FormDataKeys : NumericString(formData[f])
    /\ Predict(Number(formData.glucose), Number(formData.bmi)) = NegativeResult

(* C7: under HistorySpec, any two completed submissions whose forms agree  *)
(* on the parsed glucose and bmi have the same prediction, whatever their  *)
(* other six fields and whatever was submitted before.                     *)
C7_PredictionDependsOnGlucoseAndBmiOnly ==
    \A i, j \in DOMAIN completed :
        ( /\ Number(completed[i].form.glucose) = Number(completed[j].form.glucose)
          /\ Number(completed[i].form.bmi) = Number(completed[j].form.bmi) )
        => completed[i].prediction = completed[j].prediction

(* C7 witness: two submissions with equal glucose and bmi and different    *)
(* age have completed, with equal predictions.                             *)
C7_Witness ==
    /\ Len(completed) = 2
    /\ completed[1].form.glucose = completed[2].form.glucose
    /\ completed[1].form.bmi = completed[2].form.bmi
    /\ completed[1].form.age # completed[2].form.age
    /\ completed[1].prediction = completed[2].prediction
    /\ completed[1].prediction \in Predictions

(* C8: every field of the formData of a pending submission parses to a     *)
(* finite number.                                                          *)
C8_SubmittedFieldsFinite ==
    \A i \in DOMAIN timers : \A f \in FormDataKeys :
        Number(timers[i][f]).kind = "Finite"

(* C9: a click on the enabled button raises no notification when no field  *)
(* fails validation, and otherwise exactly one, for the first failing      *)
(* field in the order of requiredFields; a run of the deferred callback    *)
(* raises none.                                                            *)
C9_FirstFailingFieldOnly ==
    [][ /\ SubmitStep =>
             LET failing == { i \in 1..Len(requiredFields) :
                                 \/ formData[requiredFields[i]] = Empty
                                 \/ isNaN(Number(formData[requiredFields[i]])) }
             IN  IF failing = {}
                 THEN toasts' = << >> /\ isSubmitting'
                 ELSE LET first == CHOOSE i \in failing : \A k \in failing : i <= k
                      IN  toasts' = << Toast(requiredFields[first]) >>
        /\ CallbackStep => toasts' = << >> ]_vars

(* C9 witness: glucose and age both failed validation and the one          *)
(* notification raised is the one for glucose.                             *)
C9_Witness ==
    /\ lastEvent = "predict"
    /\ NumericString(formData.pregnancies)
    /\ formData.glucose = << "x" >>
    /\ formData.age = Empty
    /\ toasts = << Toast("glucose") >>
    /\ ~isSubmitting

(* C10: result is {null, ""} whenever isSubmitting is true; the step that  *)
(* sets isSubmitting sets result to {null, ""}; and result leaves          *)
(* {null, ""} only in a run of the deferred callback.                      *)
C10_ResultClearedWhileSubmitting ==
    /\ [](isSubmitting => result = NoResult)
    /\ [][ /\ (~isSubmitting /\ isSubmitting') => result' = NoResult
           /\ (result = NoResult /\ result' # NoResult) => CallbackStep ]_vars

(* C10 witness: a submission is pending, just started, with result         *)
(* {null, ""}.                                                             *)
C10_Witness ==
    /\ isSubmitting
    /\ lastEvent = "predict"
    /\ formData = Head(timers)
    /\ result = NoResult

(* The number lies outside [min, max] of the field's slider. *)
OutsideRange(field, v) ==
    \/ v.kind # "Finite"
    \/ v.neg /\ v.mant > 0
    \/ v.mant * Pow10(fieldRanges[field].scale) < fieldRanges[field].min * Pow10(v.scale)
    \/ v.mant * Pow10(fieldRanges[field].scale) > fieldRanges[field].max * Pow10(v.scale)

(* C11: under RangeSpec, a click on the enabled button with eight numeric  *)
(* fields starts a submission without a notification, whether or not the   *)
(* values lie in their slider ranges, and the callback decides on the      *)
(* parsed glucose and bmi as they are: positive exactly when glucose > 140 *)
(* or bmi > 30.                                                            *)
C11_RangesNotValidated ==
    [][ /\ (SubmitStep /\ \A f \in FormDataKeys : NumericString(formData[f])) =>
              /\ toasts' = << >>
              /\ isSubmitting'
              /\ timers' = << formData >>
        /\ CallbackStep =>
              (result' = PositiveResult) <=>
                 \/ GreaterThan(Number(Head(timers).glucose), 140)
                 \/ GreaterThan(Number(Head(timers).bmi), 30) ]_vars

(* C11 witness: a form with a negative glucose and a bmi below the         *)
(* slider's minimum has just been accepted for submission.                 *)
C11_Witness ==
    /\ isSubmitting
    /\ lastEvent = "predict"
    /\ timers = << formData >>
    /\ formData.glucose = << "-", "5" >>
    /\ OutsideRange("glucose", Number(formData.glucose))
    /\ OutsideRange("bmi", Number(formData.bmi))

(* C12: a click on the enabled button with a field that is empty or that   *)
(* Number() takes to NaN raises a notification and leaves formData,        *)
(* result, isSubmitting and the pending callbacks exactly as they were; a  *)
(* prediction of an earlier submission stays in place.                     *)
C12_FailedSubmitChangesNothing ==
    [][ ( /\ SubmitStep
          /\ \E f \in FormDataKeys :
                formData[f] = Empty \/ isNaN(Number(formData[f])) ) =>
            /\ toasts' # << >>
            /\ formData' = formData
            /\ result' = result
            /\ isSubmitting' = isSubmitting
            /\ timers' = timers ]_vars

(* C12 witness: a submission was just rejected while the positive          *)
(* prediction of an earlier submission is still shown.                     *)
C12_Witness ==
    /\ lastEvent = "predict"
    /\ toasts # << >>
    /\ ~isSubmitting
    /\ result = PositiveResult

(* Two finite numbers are equal. *)
SameNumber(a, b) ==
    /\ a.kind = "Finite" /\ b.kind = "Finite"
    /\ a.mant * Pow10(b.scale) = b.mant * Pow10(a.scale)
    /\ a.neg = b.neg \/ a.mant = 0

(* The string is written with decimal digits and at most one point. *)
DecimalString(value) ==
    /\ value # Empty
    /\ \A i \in 1..Len(value) : value[i] \in Digits \cup { "." }
    /\ Cardinality({ i \in 1..Len(value) : value[i] = "." }) <= 1

(* C13: a text edit and a slider edit are possible in every reachable      *)
(* state.  A text edit stores one of the strings offered, unaltered, in    *)
(* one field; a slider edit stores in one field a decimal string that      *)
(* Number() takes back to the slider's value.  Either leaves the other     *)
(* seven fields, result, isSubmitting and the pending callbacks unchanged. *)
C13_EditChangesOneFieldOnly ==
    /\ [](\A f \in FormDataKeys :
            /\ \A v \in TextValues(f) : ENABLED handleInputChange(f, v)
            /\ \A n \in SliderSteps(f) : ENABLED handleSliderChange(f, n))
    /\ [][ /\ lastEvent' = "input" =>
                /\ \E f \in FormDataKeys : \E v \in TextValues(f) :
                       formData' = [formData EXCEPT ![f] = v]
                /\ result' = result
                /\ isSubmitting' = isSubmitting
                /\ timers' = timers
           /\ lastEvent' = "slider" =>
                /\ \E f \in FormDataKeys : \E n \in SliderSteps(f) :
                       /\ \A g \in FormDataKeys \ { f } : formData'[g] = formData[g]
                       /\ DecimalString(formData'[f])
                       /\ SameNumber(Number(formData'[f]),
                                     Finite(FALSE, n, fieldRanges[f].scale))
                /\ result' = result
                /\ isSubmitting' = isSubmitting
                /\ timers' = timers ]_vars

(* C13 witness: after a completed submission the diabetesPedigree slider   *)
(* was dragged to 0.5 and the negative prediction is still shown.          *)
C13_Witness ==
    /\ lastEvent = "slider"
    /\ formData.diabetesPedigree = << "0", ".", "5" >>
    /\ ~isSubmitting
    /\ result = NegativeResult

(* C14: in every reachable state at most one deferred callback is pending, *)
(* and isSubmitting is true exactly when one is; so a callback runs only   *)
(* while isSubmitting is true, and no second submission can start before   *)
(* it has run.                                                             *)
C14_AtMostOnePendingCallback ==
    /\ Len(timers) <= 1
    /\ isSubmitting <=> (timers # << >>)

(* C14 witness: one callback is pending and the form has been edited       *)
(* since the click that scheduled it.                                      *)
C14_Witness ==
    /\ isSubmitting
    /\ Len(timers) = 1
    /\ lastEvent \in { "input", "slider" }
    /\ formData # Head(timers)

====
